---- MODULE Spec2Model ----
(***************************************************************************)
(* Tenant-isolation data-access gateway of BizzHub: the db-proxy handlers  *)
(* (four snapshots) and the db-batch handlers (Netlify and Cloudflare).    *)
(*                                                                         *)
(* Strings that the handlers inspect (endpoints) are sequences of lexemes: *)
(* every lexeme is a non-empty piece of text, "?" and "&" are lexemes of   *)
(* their own and occur in no other lexeme, and "user_id=" is the only      *)
(* lexeme that contains the text user_id= .  includes, split, startsWith   *)
(* and the regular expression /user_id=eq\.[^&]+/g are computed on these   *)
(* sequences exactly as JavaScript computes them on the characters.        *)
(*                                                                         *)
(* The client Database (the response cache in front of the gateway) is     *)
(* modelled beside it, under its own specification ClientSpec: there the   *)
(* gateway and the backing store answer each request in one step.          *)
(***************************************************************************)
EXTENDS Integers, Sequences, FiniteSets, TLC

VARIABLES handler, pc, httpMethod, authHeader, authenticatedUserId,
          eventBody, env, calls, response

\* the browser side: one Database object, the clock it reads, the requests it
\* has in flight, the rows behind the gateway and what the call that ended in
\* the last step returned
VARIABLES variant, userId, cache, clock, store, ops, started, last

gatewayVars == <<handler, pc, httpMethod, authHeader, authenticatedUserId,
                 eventBody, env, calls, response>>
clientVars == <<variant, userId, cache, clock, store, ops, started, last>>

vars == <<handler, pc, httpMethod, authHeader, authenticatedUserId,
          eventBody, env, calls, response,
          variant, userId, cache, clock, store, ops, started, last>>

\* ------------------------------------------------------------------ bounds
\* most query fragments in a raw endpoint of a single-call request
MaxFrags == 2
\* most sub-requests in one batch
MaxBatch == 2
\* most calls of the client Database that await the gateway at the same time
MaxInFlight == 2
\* most calls of the client Database in one run that reach the gateway, or
\* clear the cache by clearCache() (setUser and the reads answered from the
\* cache are not counted)
MaxOps == 2

\* ------------------------------------------------------------------ values
\* JavaScript undefined (a missing property, a missing header)
Absent == "<undefined>"

\* the tenants: each may hold a token, and each may be named by a caller in
\* an endpoint or a body
Users == {"alice", "bob"}

ProxyHandlers == {"proxy_rewrite", "proxy_bodyonly", "proxy_scoped", "proxy_open"}
BatchHandlers == {"batch_netlify", "batch_cloudflare"}
Handlers == ProxyHandlers \cup BatchHandlers

\* the Authorization header: absent, another scheme, or Bearer <token>; the
\* token's payload segment is missing, not base64/JSON, JSON null, or an object
\* with or without a sub claim
AuthHeaders ==
    {[scheme |-> s, payload |-> "none", sub |-> Absent] : s \in {"none", "Basic"}}
    \cup {[scheme |-> "Bearer", payload |-> p, sub |-> Absent] :
             p \in {"missing", "garbage", "null", "object"}}
    \cup {[scheme |-> "Bearer", payload |-> "object", sub |-> u] : u \in Users \cup {""}}

\* the configuration the runtime resolves: both values, or one of them missing
Envs ==
    { [SUPABASE_URL |-> "https://db.example", SUPABASE_KEY |-> "service-role-key"],
      [SUPABASE_URL |-> Absent, SUPABASE_KEY |-> "service-role-key"],
      [SUPABASE_URL |-> "https://db.example", SUPABASE_KEY |-> Absent] }

\* ------------------------------------------------------------------ endpoints
TenantFilter(uid) == <<"user_id=", "eq.", uid>>

Fragments ==
    { <<"select=*">>, <<"id=eq.1">>,
      TenantFilter("alice"), TenantFilter("bob"),
      <<"user_id=", "eq.">>,
      <<"user_id=", "in.", "(bob)">>,
      <<"owner_", "user_id=", "eq.", "bob">> }

RECURSIVE JoinAmp(_)
JoinAmp(fs) ==
    IF fs = <<>> THEN <<>>
    ELSE IF Len(fs) = 1 THEN fs[1]
    ELSE fs[1] \o <<"&">> \o JoinAmp(Tail(fs))

FragSeqs(n) == UNION {[1..k -> Fragments] : k \in 1..n}

RawEndpoints ==
    {<<"clients">>} \cup {<<"clients", "?">> \o JoinAmp(fs) : fs \in FragSeqs(MaxFrags)}

\* the endpoints of batch sub-requests
BatchEndpoints ==
    { <<"clients">>,
      <<"clients", "?", "select=*">>,
      <<"clients", "?">> \o TenantFilter("bob") \o <<"&", "select=*">> }

\* ------------------------------------------------------------------ bodies
NoBody == [kind |-> "none", user_id |-> Absent, elems |-> <<>>]
ObjectBody(u) == [kind |-> "object", user_id |-> u, elems |-> <<>>]
ArrayBody(us) == [kind |-> "array", user_id |-> Absent, elems |-> us]

Bodies == {NoBody, ObjectBody(Absent), ObjectBody("bob"), ArrayBody(<<"bob", Absent>>)}

\* the method strings of the envelope, a lower-case spelling and a verb outside
\* the envelope: the caller chooses the string
Methods == {"GET", "POST", "PATCH", "DELETE", Absent, "post", "PUT"}

\* what JSON.parse(event.body) yields for a single-call request
Envelope(m, hasE, e, b) ==
    [shape |-> "envelope", method |-> m, hasEndpoint |-> hasE, endpoint |-> e,
     body |-> b, requests |-> <<>>]

ProxyEventBodies ==
    {Envelope(m, TRUE, e, b) : m \in Methods, e \in RawEndpoints, b \in Bodies}
    \cup {Envelope(m, FALSE, <<>>, b) : m \in Methods, b \in {NoBody}}
    \cup {[shape |-> s, method |-> Absent, hasEndpoint |-> FALSE, endpoint |-> <<>>,
           body |-> NoBody, requests |-> <<>>] : s \in {"empty", "unparseable"}}

\* ------------------------------------------------------------------ strings
Includes(s, lexeme) == \E i \in 1..Len(s) : s[i] = lexeme

\* last index of the longest run of lexemes other than "&" that starts at i
RECURSIVE RunEnd(_, _)
RunEnd(s, i) == IF i + 1 <= Len(s) /\ s[i + 1] # "&" THEN RunEnd(s, i + 1) ELSE i

\* s.replace(/user_id=eq\.[^&]+/g, `user_id=eq.${uid}`), scanning from lexeme i
RECURSIVE ReplaceTenantFilters(_, _, _)
ReplaceTenantFilters(s, i, uid) ==
    IF i > Len(s) THEN <<>>
    ELSE IF /\ s[i] = "user_id="
            /\ i + 2 <= Len(s)
            /\ s[i + 1] = "eq."
            /\ s[i + 2] # "&"
         THEN TenantFilter(uid) \o ReplaceTenantFilters(s, RunEnd(s, i + 2) + 1, uid)
         ELSE <<s[i]>> \o ReplaceTenantFilters(s, i + 1, uid)

\* index of the first occurrence of lexeme in s at or after i, Len(s)+1 if none
RECURSIVE IndexOf(_, _, _)
IndexOf(s, lexeme, i) ==
    IF i > Len(s) THEN Len(s) + 1
    ELSE IF s[i] = lexeme THEN i
    ELSE IndexOf(s, lexeme, i + 1)

\* s.split(sep): the pieces between the separators, empty pieces included
RECURSIVE Split(_, _)
Split(s, sep) ==
    LET k == IndexOf(s, sep, 1)
    IN  IF k > Len(s) THEN <<s>>
        ELSE <<SubSeq(s, 1, k - 1)>> \o Split(SubSeq(s, k + 1, Len(s)), sep)

StartsWith(piece, lexeme) == Len(piece) >= 1 /\ piece[1] = lexeme

RECURSIVE Filter(_, _)
Filter(pieces, lexeme) ==
    IF pieces = <<>> THEN <<>>
    ELSE IF StartsWith(pieces[1], lexeme) THEN Filter(Tail(pieces), lexeme)
    ELSE <<pieces[1]>> \o Filter(Tail(pieces), lexeme)

\* ------------------------------------------------------------------ authentication
\* truthiness of the sub claim
Truthy(sub) == sub \notin {Absent, ""}

\* the try block that decodes the payload segment: does it throw?
DecodeThrows(a) == a.payload \in {"missing", "garbage", "null"}

\* the prologue without its check of the sub claim
Authenticated_noSubCheck(a) ==
    /\ a.scheme = "Bearer"
    /\ ~DecodeThrows(a)

\* the outcome of the authentication prologue: a 401 response or a principal
Authenticated(a) ==
    /\ a.scheme = "Bearer"
    /\ ~DecodeThrows(a)
    /\ Truthy(a.sub)

AuthError(h, a) ==
    IF a.scheme # "Bearer"
    THEN (IF h \in BatchHandlers THEN "Not authenticated"
          ELSE "Not authenticated - no token provided")
    ELSE IF DecodeThrows(a) THEN "Invalid token"
    ELSE "No user ID in token"

\* ------------------------------------------------------------------ outcomes
\* what the synchronous part of a handler produces: a response, an exception
\* for the handler's catch block, or a backend call
Respond(status, error, message) ==
    [kind |-> "respond", status |-> status, error |-> error, message |-> message,
     raw |-> Absent, method |-> Absent, endpoint |-> <<>>, body |-> NoBody]

\* a response whose body is plain text
RespondText(status, text) ==
    [kind |-> "respond", status |-> status, error |-> Absent, message |-> Absent,
     raw |-> text, method |-> Absent, endpoint |-> <<>>, body |-> NoBody]

Throw(text) ==
    [kind |-> "throw", status |-> 0, error |-> Absent, message |-> text,
     raw |-> Absent, method |-> Absent, endpoint |-> <<>>, body |-> NoBody]

Call(method, endpoint, body) ==
    [kind |-> "call", status |-> 0, error |-> Absent, message |-> Absent,
     raw |-> Absent, method |-> method, endpoint |-> endpoint, body |-> body]

ParseErrorText == "Unexpected token in JSON"
TypeErrorText == "Cannot read properties of undefined"
GetBodyErrorText == "Request with GET/HEAD method cannot have body"

\* the messages a failed fetch carries (the second names the backend host)
FetchErrors == {"fetch failed", "getaddrinfo ENOTFOUND db.example"}

Configured(cfg) == cfg.SUPABASE_URL # Absent /\ cfg.SUPABASE_KEY # Absent

\* fetch puts the method names it knows in upper case before sending: a
\* lower-case post goes out as POST
Normalize(method) == IF method = "post" THEN "POST" ELSE method

\* fetch(url, { method, body }): a GET request with a body is refused by fetch
\* itself with a TypeError, before anything is sent
Fetch(method, endpoint, body) ==
    IF Normalize(method) = "GET" /\ body.kind # "none"
    THEN Throw(GetBodyErrorText)
    ELSE Call(Normalize(method), endpoint, body)

\* method || 'GET'
OrGet(method) == IF method = Absent THEN "GET" ELSE method

\* `${endpoint}` in a template string
Interpolate(hasEndpoint, endpoint) == IF hasEndpoint THEN endpoint ELSE <<"undefined">>

\* ------------------------------------------------------------------ db-proxy, query-rewriting snapshot
\* s.replace(/user_id=eq\.[^&]+/, ...) without the g flag: the first match only
RECURSIVE ReplaceFirstTenantFilter(_, _, _)
ReplaceFirstTenantFilter(s, i, uid) ==
    IF i > Len(s) THEN <<>>
    ELSE IF /\ s[i] = "user_id="
            /\ i + 2 <= Len(s)
            /\ s[i + 1] = "eq."
            /\ s[i + 2] # "&"
         THEN TenantFilter(uid) \o SubSeq(s, RunEnd(s, i + 2) + 1, Len(s))
         ELSE <<s[i]>> \o ReplaceFirstTenantFilter(s, i + 1, uid)

safeEndpoint_firstOnly(endpoint, method, uid) ==
    IF Includes(endpoint, "user_id=")
    THEN ReplaceFirstTenantFilter(endpoint, 1, uid)
    ELSE IF method # "POST" /\ method # "PATCH"
         THEN endpoint \o <<IF Includes(endpoint, "?") THEN "&" ELSE "?">> \o TenantFilter(uid)
         ELSE endpoint

safeEndpoint(endpoint, method, uid) ==
    IF Includes(endpoint, "user_id=")
    THEN ReplaceTenantFilters(endpoint, 1, uid)
    ELSE IF method # "POST" /\ method # "PATCH"
         THEN endpoint \o <<IF Includes(endpoint, "?") THEN "&" ELSE "?">> \o TenantFilter(uid)
         ELSE endpoint

safeBody(body, method, uid) ==
    IF body.kind # "none" /\ (method = "POST" \/ method = "PATCH")
    THEN [kind |-> "object", user_id |-> uid, elems |-> body.elems]
    ELSE body

ConfigMissing(message) == Respond(502, "server_configuration_missing", message)

ProxyRewrite(eb, cfg, uid) ==
    IF eb.shape = "unparseable" THEN Throw(ParseErrorText)
    ELSE IF ~eb.hasEndpoint THEN Throw(TypeErrorText)
    ELSE IF ~Configured(cfg)
         THEN ConfigMissing("Supabase configuration not available in function runtime. Ensure SUPABASE_URL and SUPABASE_KEY are defined")
         ELSE Fetch(OrGet(eb.method),
                    safeEndpoint(eb.endpoint, eb.method, uid),
                    safeBody(eb.body, eb.method, uid))

\* ------------------------------------------------------------------ db-proxy, body-only snapshot
ProxyBodyOnly(eb, cfg, uid) ==
    IF eb.shape = "unparseable" THEN Throw(ParseErrorText)
    ELSE IF ~Configured(cfg) THEN ConfigMissing("Supabase configuration missing.")
    ELSE Fetch(OrGet(eb.method),
               Interpolate(eb.hasEndpoint, eb.endpoint),
               safeBody(eb.body, eb.method, uid))

\* ------------------------------------------------------------------ db-proxy, .netlify snapshot
\* endpoint.split('?')[1].split('&').filter(p => !p.startsWith('user_id=')).join('&')
existingQuery(endpoint) ==
    IF Includes(endpoint, "?")
    THEN JoinAmp(Filter(Split(Split(endpoint, "?")[2], "&"), "user_id="))
    ELSE <<>>

fullUrl(endpoint, uid) ==
    Split(endpoint, "?")[1] \o <<"?">> \o TenantFilter(uid)
        \o (IF existingQuery(endpoint) # <<>> THEN <<"&">> \o existingQuery(endpoint) ELSE <<>>)

ProxyScoped(eb, cfg, uid) ==
    IF eb.shape \in {"unparseable", "empty"} THEN Throw(ParseErrorText)
    ELSE IF ~eb.hasEndpoint \/ eb.method = Absent
         THEN RespondText(400, "Missing endpoint or method in request body.")
    ELSE IF ~Configured(cfg)
         THEN ConfigMissing("Supabase configuration not available in function runtime.")
         ELSE Fetch(eb.method, fullUrl(eb.endpoint, uid), eb.body)

\* ------------------------------------------------------------------ db-proxy, snapshot without authentication
ProxyOpen(eb, cfg) ==
    IF eb.shape = "unparseable" THEN Throw(ParseErrorText)
    ELSE IF ~Configured(cfg)
         THEN ConfigMissing("Supabase configuration not available in function runtime. Ensure SUPABASE_URL and SUPABASE_KEY are defined")
         ELSE Fetch(OrGet(eb.method), Interpolate(eb.hasEndpoint, eb.endpoint), eb.body)

\* the catch block of each handler
Catch(h, text) ==
    IF h = "proxy_scoped"
    THEN Respond(500, "Internal Server Error", Absent)
    ELSE Respond(500, "function_error", text)

\* the synchronous part of a single-call handler after authentication
ProxyOutcome(h, eb, cfg, uid) ==
    LET o == CASE h = "proxy_rewrite"  -> ProxyRewrite(eb, cfg, uid)
               [] h = "proxy_bodyonly" -> ProxyBodyOnly(eb, cfg, uid)
               [] h = "proxy_scoped"   -> ProxyScoped(eb, cfg, uid)
               [] h = "proxy_open"     -> ProxyOpen(eb, cfg)
    IN  IF o.kind = "throw" THEN Catch(h, o.message) ELSE o

\* ------------------------------------------------------------------ backend
\* what the backing store may answer: status, raw text, whether the text is JSON,
\* and the rows of the JSON array
UpstreamReplies ==
    { [status |-> 200, raw |-> "[r1,r2]", json |-> TRUE, rows |-> <<"r1", "r2">>],
      [status |-> 200, raw |-> "[]", json |-> TRUE, rows |-> <<>>],
      [status |-> 404, raw |-> "Not Found", json |-> FALSE, rows |-> <<>>],
      [status |-> 500, raw |-> "[e1]", json |-> TRUE, rows |-> <<"e1">>] }

NewCall(i, key, o) ==
    [item |-> i, key |-> key, method |-> o.method, endpoint |-> o.endpoint,
     body |-> o.body, state |-> "inflight", status |-> 0, raw |-> Absent,
     rows |-> <<>>, error |-> Absent]

NoResponse ==
    [status |-> 0, error |-> Absent, message |-> Absent, raw |-> Absent, result |-> {}]

ErrorResponse(o) ==
    [status |-> o.status, error |-> o.error, message |-> o.message, raw |-> o.raw,
     result |-> {}]

\* a relay that rewrites every upstream failure to a generic 500
Relay_swallow(reply) ==
    IF reply.status >= 400
    THEN [status |-> 500, error |-> "upstream_error", message |-> Absent, raw |-> Absent,
          result |-> {}]
    ELSE [status |-> reply.status, error |-> Absent, message |-> Absent, raw |-> reply.raw,
          result |-> {}]

\* return { statusCode: res.status, body: data } with data = await res.text()
Relay(reply) ==
    [status |-> reply.status, error |-> Absent, message |-> Absent, raw |-> reply.raw,
     result |-> {}]

HttpMethods == {"POST", "GET"}

\* the answer to a request that is not a POST
MethodNotAllowed(h) ==
    IF h \in BatchHandlers
    THEN Respond(405, "Method Not Allowed", Absent)
    ELSE RespondText(405, "Method Not Allowed")

\* ------------------------------------------------------------------ the client Database
\* the snapshots of class Database: src/db.js (no cache), part_000, part_001:3-364
\* (repeated at 742-1156) and part_001:371-736 (the cache inside request)
Variants == {"plain", "fixed", "optimized", "secure"}

cacheTimeout == 30000

Tables == {"clients", "jobs"}

\* the values Date.now() takes in a run, in ascending order; clock is the
\* index of the last one read
Instants == <<0, 1, 30000, 30001>>

\* the rows a read returns for one table: the table's revision (every write
\* changes a row's updated_at) and the rows that pass the deleted filter
Part(uid, rev, rows) == [user_id |-> uid, rev |-> rev, rows |-> rows]
Row(deleted) == [id |-> 1, deleted |-> deleted]

NoParts == [t \in {} |-> Part(Absent, 0, <<>>)]
\* JavaScript null and undefined as a value of the same shape as a payload
Null == [kind |-> "null", parts |-> NoParts]
Undefined == [kind |-> "undefined", parts |-> NoParts]
\* an array of rows of one table, an object of arrays keyed by table
Data(kind, parts) == [kind |-> kind, parts |-> parts]

\* if (cached): arrays and objects are truthy, null and undefined are not
TruthyData(data) == data.kind \notin {"null", "undefined"}

\* `${this.userId}:${endpoint}`
getCacheKey(uid, endpoint) == <<uid, ":">> \o endpoint

\* cached && Date.now() - cached.timestamp < this.cacheTimeout ? cached.data : null
getFromCache_closedInterval(c, key, now) ==
    IF key \in DOMAIN c /\ now - c[key].timestamp <= cacheTimeout
    THEN c[key].data
    ELSE Null

getFromCache(c, key, now) ==
    IF key \in DOMAIN c /\ now - c[key].timestamp < cacheTimeout
    THEN c[key].data
    ELSE Null

\* this.cache[key] = { data, timestamp: Date.now() }
setCache_notStored(c, key, data, now) == c

setCache(c, key, data, now) ==
    [k \in DOMAIN c \cup {key} |->
        IF k = key THEN [data |-> data, timestamp |-> now] ELSE c[k]]

EmptyCache == [k \in {} |-> [data |-> Null, timestamp |-> 0]]

\* clearCache(pattern): without a pattern the map is replaced by an empty one,
\* with one every key that includes it is deleted
clearCache_exactKey(c, pattern) ==
    IF pattern = Absent
    THEN EmptyCache
    ELSE [k \in {x \in DOMAIN c : x # <<pattern>>} |-> c[k]]

clearCache(c, pattern) ==
    IF pattern = Absent
    THEN EmptyCache
    ELSE [k \in {x \in DOMAIN c : ~Includes(x, pattern)} |-> c[k]]

\* several clearCache calls in a row
RECURSIVE clearAll(_, _)
clearAll(c, patterns) ==
    IF patterns = <<>> THEN c ELSE clearAll(clearCache(c, Head(patterns)), Tail(patterns))

\* ------------------------------------------------------------------ the calls of the client Database
ReadKinds == {"getAll", "loadDashboard", "getTrash"}
WriteKinds == {"create", "update", "softDelete", "hardDelete", "restore"}

\* the methods a snapshot defines (insert of the secure snapshot is create here,
\* its getAllClients / getAllJobs are getAll)
Defines(v) ==
    CASE v = "plain" -> {"getAll", "getTrash"} \cup WriteKinds
      [] v = "fixed" -> {"getAll", "create", "update", "softDelete", "hardDelete"}
      [] v = "optimized" -> ReadKinds \cup WriteKinds
      [] OTHER -> {"getAll", "getTrash"} \cup WriteKinds

Caches(v) == v # "plain"

\* the endpoint of a read of one table, and the one the secure snapshot caches it under
ListEndpoint(T, deleted) ==
    <<T, "?", IF deleted THEN "deleted=eq.true" ELSE "deleted=eq.false", "&", "select=*">>

\* the key a read is cached under
cacheKey(v, uid, kind, T) ==
    CASE kind = "getAll" /\ v = "secure" -> getCacheKey(uid, ListEndpoint(T, FALSE))
      [] kind = "getAll" -> getCacheKey(uid, <<T, ":all">>)
      [] kind = "loadDashboard" -> getCacheKey(uid, <<"dashboard">>)
      [] OTHER -> getCacheKey(uid, <<"trash">>)

\* the tables a read asks the gateway for
Asks(kind, T) == IF kind = "getAll" THEN {T} ELSE Tables

\* the patterns a write clears once its request has succeeded
Invalidates(v, kind, T) ==
    CASE v = "plain" -> <<>>
      [] v = "secure" -> <<T>>
      [] v = "fixed" /\ kind = "hardDelete" -> <<T, "dashboard", "trash">>
      [] v = "fixed" -> <<T, "dashboard">>
      [] kind \in {"create", "update"} -> <<T, "dashboard">>
      [] OTHER -> <<T, "dashboard", "trash">>

\* the writes that throw when the gateway answers with no row
ThrowsOnEmpty(v, kind) ==
    \/ kind = "create" /\ v \in {"plain", "fixed", "optimized"}
    \/ kind \in {"update", "softDelete"} /\ v = "fixed"

\* one part of a call: the request for one table, from sent to delivered
PartSent == [st |-> "sent", ok |-> TRUE, user_id |-> Absent, rev |-> 0, rows |-> <<>>]
PartCached(p) ==
    [st |-> "delivered", ok |-> TRUE, user_id |-> p.user_id, rev |-> p.rev, rows |-> p.rows]

Idle ==
    [kind |-> "idle", table |-> Absent, user |-> Absent, principal |-> Absent,
     round |-> "single", parts |-> [t \in {} |-> PartSent], done |-> FALSE]

NewOp(kind, T, uid, round, parts) ==
    [kind |-> kind, table |-> T, user |-> uid, principal |-> uid, round |-> round,
     parts |-> parts, done |-> FALSE]

FreeSlots == {i \in 1..MaxInFlight : ops[i].kind = "idle"}

\* what the most recent call of the Database did, as its caller saw it
Outcome(kind, T, uid, outcome, value, hit) ==
    [kind |-> kind, table |-> T, user |-> uid, outcome |-> outcome, value |-> value,
     hit |-> hit]

\* how a call ended: "returned", "threw" (the method's own throw on an empty
\* answer) or "rejected" (request threw, and the method let it through)
Raised == {"threw", "rejected"}

\* no call of the Database ended in the step just taken
Quiet == Outcome("none", Absent, Absent, "none", Undefined, FALSE)

\* ------------------------------------------------------------------ actions
\* no handler is running
NotInvoked ==
    /\ handler = Absent
    /\ pc = "idle"
    /\ httpMethod = Absent
    /\ authHeader = [scheme |-> "none", payload |-> "none", sub |-> Absent]
    /\ authenticatedUserId = Absent
    /\ eventBody = [shape |-> "unread", method |-> Absent, hasEndpoint |-> FALSE,
                    endpoint |-> <<>>, body |-> NoBody, requests |-> <<>>]
    /\ env = [SUPABASE_URL |-> Absent, SUPABASE_KEY |-> Absent]
    /\ calls = <<>>
    /\ response = NoResponse

\* new Database(): no user, an empty cache, nothing in flight; every tenant has
\* one live row in every table
Constructed ==
    /\ userId = Absent
    /\ cache = EmptyCache
    /\ clock = 1
    /\ store = [u \in Users |-> [t \in Tables |-> [rev |-> 0, row |-> "live"]]]
    /\ ops = [i \in 1..MaxInFlight |-> Idle]
    /\ started = 0
    /\ last = Quiet

Init ==
    /\ NotInvoked
    /\ variant = "plain"
    /\ Constructed

\* the entry of a handler: the method check and the authentication prologue
Receive(h, m, a) ==
    /\ pc = "idle"
    /\ h = "batch_cloudflare" => m = "POST"
    /\ handler' = h
    /\ httpMethod' = m
    /\ authHeader' = a
    /\ IF m # "POST"
       THEN /\ response' = ErrorResponse(MethodNotAllowed(h))
            /\ pc' = "done"
            /\ authenticatedUserId' = Absent
       ELSE IF h = "proxy_open"
       THEN /\ pc' = "running"
            /\ UNCHANGED <<response, authenticatedUserId>>
       ELSE IF Authenticated(a)
       THEN /\ pc' = "running"
            /\ authenticatedUserId' = a.sub
            /\ UNCHANGED response
       ELSE /\ response' = ErrorResponse(Respond(401, AuthError(h, a), Absent))
            /\ pc' = "done"
            /\ authenticatedUserId' = Absent
    /\ UNCHANGED <<eventBody, env, calls>>
    /\ UNCHANGED clientVars

\* a single-call handler from the parse of the request body to its fetch
ProxyForward(eb, cfg) ==
    /\ pc = "running"
    /\ handler \in ProxyHandlers
    /\ eventBody' = eb
    /\ env' = cfg
    /\ LET o == ProxyOutcome(handler, eb, cfg, authenticatedUserId)
       IN  IF o.kind = "call"
           THEN /\ calls' = <<NewCall(1, Absent, o)>>
                /\ pc' = "awaiting"
                /\ UNCHANGED response
           ELSE /\ response' = ErrorResponse(o)
                /\ pc' = "done"
                /\ UNCHANGED calls
    /\ UNCHANGED <<handler, httpMethod, authHeader, authenticatedUserId>>
    /\ UNCHANGED clientVars

\* the backend answers a single-call request: the handler relays it
ProxyUpstreamReplies(reply) ==
    /\ pc = "awaiting"
    /\ handler \in ProxyHandlers
    /\ calls' = [calls EXCEPT ![1].state = "replied", ![1].status = reply.status,
                              ![1].raw = reply.raw, ![1].rows = reply.rows]
    /\ response' = Relay(reply)
    /\ pc' = "done"
    /\ UNCHANGED <<handler, httpMethod, authHeader, authenticatedUserId, eventBody, env>>
    /\ UNCHANGED clientVars

\* the fetch of a single-call request rejects: the handler's catch block answers
ProxyFetchFails(text) ==
    /\ pc = "awaiting"
    /\ handler \in ProxyHandlers
    /\ calls' = [calls EXCEPT ![1].state = "failed", ![1].error = text]
    /\ response' = ErrorResponse(Catch(handler, text))
    /\ pc' = "done"
    /\ UNCHANGED <<handler, httpMethod, authHeader, authenticatedUserId, eventBody, env>>
    /\ UNCHANGED clientVars

\* ------------------------------------------------------------------ db-batch
BatchKeys == {"business", "clients", "jobs"}

Item(key, hasE, e) == [key |-> key, hasEndpoint |-> hasE, endpoint |-> e]

BatchItems ==
    {Item(k, TRUE, e) : k \in BatchKeys, e \in BatchEndpoints}
    \cup {Item(k, FALSE, <<>>) : k \in BatchKeys}

DistinctKeys(rs) == \A i, j \in 1..Len(rs) : rs[i].key = rs[j].key => i = j

\* the lists of sub-requests a caller sends: one sub-request per logical key
RequestLists ==
    UNION {{rs \in [1..n -> BatchItems] : DistinctKeys(rs)} : n \in 0..MaxBatch}

BatchBody(shape, rs) ==
    [shape |-> shape, method |-> Absent, hasEndpoint |-> FALSE, endpoint |-> <<>>,
     body |-> NoBody, requests |-> rs]

\* the request bodies of a batch call: { requests: [...] }, a bare array of
\* { key, endpoint }, an object mapping key to endpoint, no body, unparseable text
BatchEventBodies ==
    {BatchBody("wrapped", rs) : rs \in RequestLists}
    \cup {BatchBody(shape, rs) : shape \in {"bareArray", "mapping"},
              rs \in {r \in RequestLists : \A i \in 1..Len(r) : r[i].hasEndpoint}}
    \cup {BatchBody(shape, <<>>) : shape \in {"empty", "unparseable"}}

\* const { requests } = JSON.parse(event.body || '{}'); Array.isArray(requests)
requestsIsArray(eb) == eb.shape = "wrapped"

\* the tenant filter forced on a sub-request's endpoint
batchSafeEndpoint(endpoint, uid) ==
    IF Includes(endpoint, "user_id=")
    THEN ReplaceTenantFilters(endpoint, 1, uid)
    ELSE endpoint \o <<IF Includes(endpoint, "?") THEN "&" ELSE "?">> \o TenantFilter(uid)

\* the async callback of requests.map up to its fetch: a sub-request without an
\* endpoint throws outside the callback's try block, so its promise is rejected
SubRequest(i, req, uid) ==
    IF req.hasEndpoint
    THEN NewCall(i, req.key, Call("GET", batchSafeEndpoint(req.endpoint, uid), NoBody))
    ELSE [NewCall(i, req.key, Call("GET", <<>>, NoBody)) EXCEPT !.state = "rejected",
                                                               !.error = TypeErrorText]

\* the entry of results.forEach for one settled sub-request
Contributes(c) ==
    /\ c.status = 200
    /\ ~(c.key = "business" /\ c.rows = <<>>)

Value_alwaysArray(c) == [shape |-> "array", rows |-> c.rows]

Value(c) ==
    IF c.key = "business"
    THEN [shape |-> "element", rows |-> <<c.rows[1]>>]
    ELSE [shape |-> "array", rows |-> c.rows]

\* the response object built from the settled results
Assemble_crossed(cs) ==
    {[key |-> cs[i].key,
      value |-> IF cs[i].key = "business"
                THEN [shape |-> "element", rows |-> SubSeq(cs[Len(cs) + 1 - i].rows, 1, 1)]
                ELSE [shape |-> "array", rows |-> cs[Len(cs) + 1 - i].rows]] :
        i \in {j \in 1..Len(cs) : Contributes(cs[j])}}

Assemble(cs) ==
    {[key |-> cs[i].key, value |-> Value(cs[i])] : i \in {j \in 1..Len(cs) : Contributes(cs[j])}}

\* a batch that fails as a whole when one sub-request failed
BatchResponse_failFast(cs) ==
    IF \E i \in 1..Len(cs) : cs[i].status # 200
    THEN [status |-> 500, error |-> "function_error", message |-> Absent, raw |-> Absent,
          result |-> {}]
    ELSE [status |-> 200, error |-> Absent, message |-> Absent, raw |-> Absent,
          result |-> Assemble(cs)]

BatchResponse(cs) ==
    [status |-> 200, error |-> Absent, message |-> Absent, raw |-> Absent,
     result |-> Assemble(cs)]

\* the result object a sub-request's callback returns once its fetch has settled
Settled(c, reply) ==
    IF reply.json
    THEN [c EXCEPT !.state = "replied", !.status = reply.status, !.raw = reply.raw,
                   !.rows = reply.rows]
    ELSE [c EXCEPT !.state = "failed", !.status = 500, !.raw = reply.raw,
                   !.error = ParseErrorText]

Failed(c, text) == [c EXCEPT !.state = "failed", !.status = 500, !.error = text]

AllSettled(cs) == \A i \in 1..Len(cs) : cs[i].state \in {"replied", "failed"}

\* a batch handler from the configuration check to the fan-out of its fetches
BatchFanOut(eb, cfg) ==
    /\ pc = "running"
    /\ handler \in BatchHandlers
    /\ env' = cfg
    /\ IF ~Configured(cfg)
       THEN /\ response' = ErrorResponse(ConfigMissing(Absent))
            /\ pc' = "done"
            /\ UNCHANGED <<calls, eventBody>>
       ELSE /\ eventBody' = eb
            /\ IF eb.shape = "unparseable"
               THEN /\ response' = ErrorResponse(Catch(handler, ParseErrorText))
                    /\ pc' = "done"
                    /\ UNCHANGED calls
               ELSE IF ~requestsIsArray(eb)
               THEN /\ response' = ErrorResponse(Respond(400, "requests must be an array", Absent))
                    /\ pc' = "done"
                    /\ UNCHANGED calls
               ELSE LET cs == [i \in 1..Len(eb.requests) |->
                                  SubRequest(i, eb.requests[i], authenticatedUserId)]
                    IN  /\ calls' = cs
                        /\ IF \E i \in 1..Len(cs) : cs[i].state = "rejected"
                           THEN /\ response' = ErrorResponse(Catch(handler, TypeErrorText))
                                /\ pc' = "done"
                           ELSE IF cs = <<>>
                           THEN /\ response' = BatchResponse(cs)
                                /\ pc' = "done"
                           ELSE /\ pc' = "awaiting"
                                /\ UNCHANGED response
    /\ UNCHANGED <<handler, httpMethod, authHeader, authenticatedUserId>>
    /\ UNCHANGED clientVars

\* Promise.all: once the last sub-request has settled the response is assembled
Collect(cs) ==
    IF AllSettled(cs)
    THEN /\ response' = BatchResponse(cs)
         /\ pc' = "done"
    ELSE UNCHANGED <<response, pc>>

\* the backend answers sub-request i
BatchSubReplies(i, reply) ==
    /\ pc = "awaiting"
    /\ handler \in BatchHandlers
    /\ i \in 1..Len(calls)
    /\ calls[i].state = "inflight"
    /\ calls' = [calls EXCEPT ![i] = Settled(calls[i], reply)]
    /\ Collect(calls')
    /\ UNCHANGED <<handler, httpMethod, authHeader, authenticatedUserId, eventBody, env>>
    /\ UNCHANGED clientVars

\* the fetch of sub-request i rejects: the callback's catch block absorbs it
BatchSubFails(i, text) ==
    /\ pc = "awaiting"
    /\ handler \in BatchHandlers
    /\ i \in 1..Len(calls)
    /\ calls[i].state = "inflight"
    /\ calls' = [calls EXCEPT ![i] = Failed(calls[i], text)]
    /\ Collect(calls')
    /\ UNCHANGED <<handler, httpMethod, authHeader, authenticatedUserId, eventBody, env>>
    /\ UNCHANGED clientVars

\* the handler's position selects the step before its inputs are drawn
AtEntry == pc = "idle"
InProxy(at) == pc = at /\ handler \in ProxyHandlers
InBatch(at) == pc = at /\ handler \in BatchHandlers

Next ==
    \/ AtEntry /\ \E h \in Handlers, m \in HttpMethods, a \in AuthHeaders : Receive(h, m, a)
    \/ InProxy("running") /\ \E eb \in ProxyEventBodies, cfg \in Envs : ProxyForward(eb, cfg)
    \/ InProxy("awaiting") /\ \E reply \in UpstreamReplies : ProxyUpstreamReplies(reply)
    \/ InProxy("awaiting") /\ \E text \in FetchErrors : ProxyFetchFails(text)
    \/ InBatch("running") /\ \E eb \in BatchEventBodies, cfg \in Envs : BatchFanOut(eb, cfg)
    \/ InBatch("awaiting") /\ \E i \in 1..Len(calls), reply \in UpstreamReplies : BatchSubReplies(i, reply)
    \/ InBatch("awaiting") /\ \E i \in 1..Len(calls), text \in FetchErrors : BatchSubFails(i, text)

Spec == Init /\ [][Next]_vars

\* ------------------------------------------------------------------ client actions
\* Date.now() never runs backwards: a step that reads the clock finds it at
\* the instant of the last reading or at a later one
Reads(c) == c \in clock..Len(Instants)

\* setUser(userId): the new user, and a new empty cache
SetUser_cacheKept(u) ==
    /\ userId' = u
    /\ last' = Outcome("setUser", Absent, u, "returned", Undefined, FALSE)
    /\ UNCHANGED <<variant, clock, store, ops, cache, started>>

SetUser(u) ==
    /\ userId' = u
    /\ cache' = EmptyCache
    /\ last' = Outcome("setUser", Absent, u, "returned", Undefined, FALSE)
    /\ UNCHANGED <<variant, clock, store, ops, started>>

\* clearCache() without a pattern, as loadData and deleteAllUserData call it
ClearCacheAll ==
    /\ Caches(variant)
    /\ started < MaxOps
    /\ started' = started + 1
    /\ cache' = clearCache(cache, Absent)
    /\ last' = Outcome("clearCache", Absent, userId, "returned", Undefined, FALSE)
    /\ UNCHANGED <<variant, userId, clock, store, ops>>

\* the rows of an array payload, and the object getTrash / loadDashboard build
RowsOf(T, p) == Data("rows", [t \in {T} |-> Part(p.user_id, p.rev, p.rows)])
Aggregate(kind, parts, ts) ==
    Data(kind, [t \in ts |-> Part(parts[t].user_id, parts[t].rev, parts[t].rows)])

\* the part of a read the secure snapshot's request finds cached under the
\* endpoint of that part (the other snapshots send every part)
InnerKey(uid, kind, T) == getCacheKey(uid, ListEndpoint(T, kind = "getTrash"))

FirstPart(v, uid, kind, T, now) ==
    LET inner == getFromCache(cache, InnerKey(uid, kind, T), now)
    IN  IF v = "secure" /\ TruthyData(inner) THEN PartCached(inner.parts[T]) ELSE PartSent

AllDelivered(parts) == \A t \in DOMAIN parts : parts[t].st = "delivered"

\* a read at instant c: the cached payload if the lookup finds one, else the
\* requests go out
CallRead_evictsExpired(kind, T, c) ==
    /\ userId # Absent
    /\ kind \in ReadKinds \cap Defines(variant)
    /\ IF Caches(variant) THEN Reads(c) ELSE c = clock
    /\ clock' = c
    /\ LET key == cacheKey(variant, userId, kind, T)
           cached == IF Caches(variant) THEN getFromCache(cache, key, Instants[c]) ELSE Null
           parts == [t \in Asks(kind, T) |-> FirstPart(variant, userId, kind, t, Instants[c])]
           data == Aggregate("trash", parts, Tables)
       IN  IF TruthyData(cached)
           THEN /\ last' = Outcome(kind, T, userId, "returned", cached, TRUE)
                /\ UNCHANGED <<cache, ops, started>>
           ELSE IF AllDelivered(parts)
           THEN /\ cache' = setCache(cache, key, data, Instants[c])
                /\ last' = Outcome(kind, T, userId, "returned", data, FALSE)
                /\ UNCHANGED <<ops, started>>
           ELSE /\ FreeSlots # {}
                /\ started < MaxOps
                /\ ops' = [ops EXCEPT ![CHOOSE i \in FreeSlots : TRUE] =
                              NewOp(kind, T, userId,
                                    IF kind = "loadDashboard" THEN "batch" ELSE "single", parts)]
                /\ started' = started + 1
                /\ last' = Quiet
                /\ cache' = [k \in DOMAIN cache \ {key} |-> cache[k]]
    /\ UNCHANGED <<variant, userId, store>>

CallRead(kind, T, c) ==
    /\ userId # Absent
    /\ kind \in ReadKinds \cap Defines(variant)
    /\ IF Caches(variant) THEN Reads(c) ELSE c = clock
    /\ clock' = c
    /\ LET key == cacheKey(variant, userId, kind, T)
           cached == IF Caches(variant) THEN getFromCache(cache, key, Instants[c]) ELSE Null
           parts == [t \in Asks(kind, T) |-> FirstPart(variant, userId, kind, t, Instants[c])]
           data == Aggregate("trash", parts, Tables)
       IN  IF TruthyData(cached)
           THEN /\ last' = Outcome(kind, T, userId, "returned", cached, TRUE)
                /\ UNCHANGED <<cache, ops, started>>
           ELSE IF AllDelivered(parts)
           THEN /\ cache' = setCache(cache, key, data, Instants[c])
                /\ last' = Outcome(kind, T, userId, "returned", data, FALSE)
                /\ UNCHANGED <<ops, started>>
           ELSE /\ FreeSlots # {}
                /\ started < MaxOps
                /\ ops' = [ops EXCEPT ![CHOOSE i \in FreeSlots : TRUE] =
                              NewOp(kind, T, userId,
                                    IF kind = "loadDashboard" THEN "batch" ELSE "single", parts)]
                /\ started' = started + 1
                /\ last' = Quiet
                /\ UNCHANGED cache
    /\ UNCHANGED <<variant, userId, store>>

\* a write: its request goes out
CallWrite(kind, T) ==
    /\ userId # Absent
    /\ kind \in WriteKinds \cap Defines(variant)
    /\ FreeSlots # {}
    /\ started < MaxOps
    /\ ops' = [ops EXCEPT ![CHOOSE i \in FreeSlots : TRUE] =
                  NewOp(kind, T, userId, "single", [t \in {T} |-> PartSent])]
    /\ started' = started + 1
    /\ last' = Quiet
    /\ UNCHANGED <<variant, userId, cache, clock, store>>

\* ------------------------------------------------------------------ the gateway and the store, as the client sees them
\* the rows a read of one table returns: deleted=eq.true for the trash,
\* deleted=eq.false for the lists
Visible(kind, row) ==
    IF kind = "getTrash"
    THEN IF row = "trashed" THEN <<Row(TRUE)>> ELSE <<>>
    ELSE IF row = "live" THEN <<Row(FALSE)>> ELSE <<>>

\* the table after a write: POST adds a row, PATCH and DELETE act on the row
\* id=eq.1 if it exists
Written_deletedToggled(kind, r) ==
    CASE kind = "create" -> [rev |-> r.rev + 1, row |-> IF r.row = "gone" THEN "live" ELSE r.row]
      [] r.row = "gone" -> r
      [] kind = "update" -> [rev |-> r.rev + 1, row |-> r.row]
      [] kind = "softDelete" ->
            [rev |-> r.rev + 1, row |-> IF r.row = "trashed" THEN "live" ELSE "trashed"]
      [] kind = "restore" -> [rev |-> r.rev + 1, row |-> "live"]
      [] OTHER -> [rev |-> r.rev + 1, row |-> "gone"]

Written(kind, r) ==
    CASE kind = "create" -> [rev |-> r.rev + 1, row |-> IF r.row = "gone" THEN "live" ELSE r.row]
      [] r.row = "gone" -> r
      [] kind = "update" -> [rev |-> r.rev + 1, row |-> r.row]
      [] kind = "softDelete" -> [rev |-> r.rev + 1, row |-> "trashed"]
      [] kind = "restore" -> [rev |-> r.rev + 1, row |-> "live"]
      [] OTHER -> [rev |-> r.rev + 1, row |-> "gone"]

\* the rows a write returns (Prefer: return=representation)
Representation(kind, r) ==
    CASE kind = "create" -> <<Row(FALSE)>>
      [] r.row = "gone" -> <<>>
      [] kind = "softDelete" -> <<Row(TRUE)>>
      [] kind = "restore" -> <<Row(FALSE)>>
      [] OTHER -> <<Row(r.row = "trashed")>>

\* the gateway and the store answer the request for one table of a call; inside
\* db-batch a sub-request may also fail, and the function then leaves its key out
Serve(i, T, ok) ==
    /\ T \in DOMAIN ops[i].parts
    /\ ops[i].parts[T].st = "sent"
    /\ ok \/ ops[i].round = "batch"
    /\ LET op == ops[i]
           r == store[op.principal][T]
       IN  IF ~ok
           THEN /\ ops' = [ops EXCEPT ![i].parts[T] =
                              [st |-> "served", ok |-> FALSE, user_id |-> Absent, rev |-> 0,
                               rows |-> <<>>]]
                /\ UNCHANGED store
           ELSE IF op.kind \in ReadKinds
           THEN /\ ops' = [ops EXCEPT ![i].parts[T] =
                              [st |-> "served", ok |-> TRUE, user_id |-> op.principal, rev |-> r.rev,
                               rows |-> Visible(op.kind, r.row)]]
                /\ UNCHANGED store
           ELSE /\ store' = [store EXCEPT ![op.principal][T] = Written(op.kind, r)]
                /\ ops' = [ops EXCEPT ![i].parts[T] =
                              [st |-> "served", ok |-> TRUE, user_id |-> op.principal,
                               rev |-> Written(op.kind, r).rev,
                               rows |-> Representation(op.kind, r)]]
    /\ last' = Quiet
    /\ UNCHANGED <<variant, userId, cache, clock, started>>

\* a request of a call fails: before it changes anything (the gateway refuses
\* it, the backend answers with an error, the network drops it) or, for a
\* write, after the store applied it (the connection is lost before the
\* response reaches the page, and fetch rejects): request throws
Fail(i, T) ==
    /\ ops[i].round # "batch"
    /\ T \in DOMAIN ops[i].parts
    /\ \/ ops[i].parts[T].st = "sent"
       \/ ops[i].kind \in WriteKinds /\ ops[i].parts[T].st = "served"
    /\ LET op == ops[i]
           parts == [op.parts EXCEPT ![T] =
                        [st |-> "delivered", ok |-> FALSE, user_id |-> Absent, rev |-> 0, rows |-> <<>>]]
       IN  /\ ops' = [ops EXCEPT ![i] =
                         IF AllDelivered(parts) THEN Idle
                         ELSE [op EXCEPT !.parts = parts, !.done = TRUE]]
           /\ last' = IF op.done
                      THEN Quiet
                      ELSE Outcome(op.kind, op.table, op.user, "rejected", Undefined, FALSE)
    /\ UNCHANGED <<variant, userId, cache, clock, store, started>>

\* the response of one request reaches the page at instant c: request returns
\* or throws, and the call that awaited it goes on to its end once it has all
\* its responses
Deliver(i, T, c) ==
    /\ ops[i].round # "batch"
    /\ T \in DOMAIN ops[i].parts
    /\ ops[i].parts[T].st = "served"
    /\ LET op == ops[i]
           p == op.parts[T]
           parts == [op.parts EXCEPT ![T].st = "delivered"]
           complete == AllDelivered(parts)
           key == cacheKey(variant, op.user, op.kind, op.table)
           populates == p.ok /\ op.kind \in ReadKinds /\ Caches(variant)
           inner == IF variant = "secure" /\ populates
                    THEN setCache(cache, InnerKey(op.user, op.kind, T), RowsOf(T, p), Instants[c])
                    ELSE cache
           data == IF op.kind = "getAll"
                   THEN RowsOf(T, p)
                   ELSE Aggregate(IF op.kind = "getTrash" THEN "trash" ELSE "dashboard",
                                  parts, Tables)
           threw == Outcome(op.kind, op.table, op.user, "threw", Undefined, FALSE)
       IN  /\ p.ok
           /\ IF populates /\ (variant = "secure" \/ (complete /\ ~op.done))
              THEN Reads(c)
              ELSE c = clock
           /\ ops' = [ops EXCEPT ![i] =
                         IF complete THEN Idle
                         ELSE [op EXCEPT !.parts = parts]]
           /\ IF op.done
              THEN /\ cache' = inner
                   /\ last' = Quiet
              ELSE IF op.kind \in WriteKinds
              THEN IF ThrowsOnEmpty(variant, op.kind) /\ p.rows = <<>>
                   THEN /\ last' = threw
                        /\ UNCHANGED cache
                   ELSE /\ cache' = clearAll(cache, Invalidates(variant, op.kind, T))
                        /\ last' = Outcome(op.kind, T, op.user, "returned", RowsOf(T, p), FALSE)
              ELSE IF ~complete
              THEN /\ cache' = inner
                   /\ last' = Quiet
              ELSE /\ cache' = IF Caches(variant)
                               THEN setCache(inner, key, data, Instants[c])
                               ELSE cache
                   /\ last' = Outcome(op.kind, op.table, op.user, "returned", data, FALSE)
    /\ clock' = c
    /\ UNCHANGED <<variant, userId, store, started>>

\* the db-batch function answers loadDashboard at instant c: one object with
\* the keys whose sub-request succeeded
DeliverBatch(i, c) ==
    /\ ops[i].round = "batch"
    /\ \A t \in DOMAIN ops[i].parts : ops[i].parts[t].st = "served"
    /\ Reads(c)
    /\ clock' = c
    /\ LET op == ops[i]
           answered == {t \in DOMAIN op.parts : op.parts[t].ok}
           data == Aggregate("dashboard", op.parts, answered)
       IN  /\ cache' = setCache(cache, cacheKey(variant, op.user, op.kind, op.table), data,
                                Instants[c])
           /\ last' = Outcome(op.kind, op.table, op.user, "returned", data, FALSE)
    /\ ops' = [ops EXCEPT ![i] = Idle]
    /\ UNCHANGED <<variant, userId, store, started>>

\* the db-batch function refuses the request or cannot be reached: loadDashboard
\* falls back to one request per table, each naming this.userId as it is now
BatchRejected(i) ==
    /\ ops[i].round = "batch"
    /\ \A t \in DOMAIN ops[i].parts : ops[i].parts[t].st = "sent"
    /\ ops' = [ops EXCEPT ![i].round = "fallback", ![i].principal = userId]
    /\ last' = Quiet
    /\ UNCHANGED <<variant, userId, cache, clock, store, started>>

ClientInit ==
    /\ NotInvoked
    /\ variant \in Variants
    /\ Constructed

Busy == {i \in 1..MaxInFlight : ops[i].kind # "idle"}
\* the users that can log in next: the first login of a run is alice's (the
\* names are interchangeable), a later one is anybody's
Logins == IF userId = Absent THEN {"alice"} ELSE Users
Ticks == 1..Len(Instants)
\* the tables the next call can name: the first call of a run names clients
\* (the client treats every table alike), a later one any table
Targets == IF started = 0 THEN {"clients"} ELSE Tables

ClientNext ==
    \/ \E u \in Logins : SetUser(u) /\ UNCHANGED gatewayVars
    \/ ClearCacheAll /\ UNCHANGED gatewayVars
    \/ \E T \in Targets, c \in Ticks : CallRead("getAll", T, c) /\ UNCHANGED gatewayVars
    \/ \E kind \in {"loadDashboard", "getTrash"}, c \in Ticks :
          CallRead(kind, Absent, c) /\ UNCHANGED gatewayVars
    \/ \E kind \in WriteKinds, T \in Targets : CallWrite(kind, T) /\ UNCHANGED gatewayVars
    \/ \E i \in Busy, T \in Tables, ok \in BOOLEAN : Serve(i, T, ok) /\ UNCHANGED gatewayVars
    \/ \E i \in Busy, T \in Tables : Fail(i, T) /\ UNCHANGED gatewayVars
    \/ \E i \in Busy, T \in Tables, c \in Ticks : Deliver(i, T, c) /\ UNCHANGED gatewayVars
    \/ \E i \in Busy, c \in Ticks : DeliverBatch(i, c) /\ UNCHANGED gatewayVars
    \/ \E i \in Busy : BatchRejected(i) /\ UNCHANGED gatewayVars

ClientSpec == ClientInit /\ [][ClientNext]_vars

\* ------------------------------------------------------------------ what the backend sees
\* the query fragments of an endpoint: the text after the first "?", cut at "&"
QueryPieces(e) ==
    IF Includes(e, "?")
    THEN Split(SubSeq(e, IndexOf(e, "?", 1) + 1, Len(e)), "&")
    ELSE <<>>

\* the values V of the fragments user_id=eq.<V> (V not empty) of an endpoint
TenantValues(e) ==
    {SubSeq(QueryPieces(e)[k], 3, Len(QueryPieces(e)[k])) :
        k \in {j \in 1..Len(QueryPieces(e)) :
                  /\ Len(QueryPieces(e)[j]) >= 3
                  /\ QueryPieces(e)[j][1] = "user_id="
                  /\ QueryPieces(e)[j][2] = "eq."}}

\* the endpoint carries the predicate user_id=eq.P
HasTenantPredicate(e, P) == \E k \in 1..Len(QueryPieces(e)) : QueryPieces(e)[k] = TenantFilter(P)

Issued == {calls[i] : i \in {j \in 1..Len(calls) : calls[j].state # "rejected"}}

\* the handlers that authenticate and rewrite the query string
RewritingHandlers == {"proxy_rewrite", "proxy_scoped", "batch_netlify", "batch_cloudflare"}
\* the handlers with the authentication prologue
AuthenticatingHandlers == Handlers \ {"proxy_open"}

ConfigValues == {env.SUPABASE_URL, env.SUPABASE_KEY} \ {Absent}
ResponseTexts == {response.error, response.message, response.raw}

\* ------------------------------------------------------------------ C1
\* C1: in the handlers that rewrite the query string (the query-rewriting and
\* .netlify db-proxy snapshots, both db-batch handlers), every fragment
\* user_id=eq.<V> of an endpoint sent to the backend has V = the principal of
\* the token, whatever user_id=eq.<V> fragments the raw endpoint held.
C1_TenantFilterIsPrincipal ==
    handler \in RewritingHandlers =>
        \A c \in Issued : TenantValues(c.endpoint) \subseteq {<<authenticatedUserId>>}

\* a raw endpoint with two tenant filters of different values went out, rewritten
C1_Witness ==
    /\ handler = "proxy_rewrite"
    /\ authenticatedUserId = "alice"
    /\ eventBody.endpoint = <<"clients", "?">> \o TenantFilter("bob") \o <<"&">> \o TenantFilter("alice")
    /\ Len(calls) = 1
    /\ TenantValues(calls[1].endpoint) = {<<"alice">>}

\* ------------------------------------------------------------------ C2
\* the raw endpoint holds no tenant filter or only fragments user_id=eq.<V>
PlainTenantFilters(e) ==
    \A k \in 1..Len(QueryPieces(e)) :
        Includes(QueryPieces(e)[k], "user_id=") =>
            /\ Len(QueryPieces(e)[k]) = 3
            /\ QueryPieces(e)[k][1] = "user_id="
            /\ QueryPieces(e)[k][2] = "eq."

\* C2: for every method and every raw endpoint, with or without a tenant
\* filter user_id=eq.<V>, every backend call of the db-proxy gateway
\* (query-rewriting and body-only snapshots) carries the predicate
\* user_id=eq.P of the authenticated principal P.
C2_EveryCallHasTenantPredicate ==
    (/\ handler \in {"proxy_rewrite", "proxy_bodyonly"}
     /\ eventBody.hasEndpoint
     /\ PlainTenantFilters(eventBody.endpoint))
        => \A c \in Issued : HasTenantPredicate(c.endpoint, authenticatedUserId)

\* ------------------------------------------------------------------ C3
\* C3: every POST or PATCH request with an object body that the db-proxy
\* gateway forwards for principal P delivers a body whose user_id is P.
C3_BodyStampedWithPrincipal ==
    (/\ handler \in {"proxy_rewrite", "proxy_bodyonly", "proxy_scoped"}
     /\ eventBody.method \in {"POST", "PATCH"}
     /\ eventBody.body.kind = "object")
        => \A c \in Issued : c.body.user_id = authenticatedUserId

\* ------------------------------------------------------------------ C4
\* the Authorization headers the claim calls failures: absent, not Bearer, a
\* payload that is not JSON, no truthy sub claim
AuthFailure(a) ==
    \/ a.scheme # "Bearer"
    \/ a.payload \in {"missing", "garbage"}
    \/ a.sub \in {Absent, ""}

\* C4: a POST request to a handler with the authentication prologue whose
\* Authorization header is absent, not Bearer, undecodable or without a truthy
\* sub is answered 401 and no backend call is ever issued for it.
C4_AuthFailureIsTerminal ==
    (/\ pc # "idle"
     /\ handler \in AuthenticatingHandlers
     /\ httpMethod = "POST"
     /\ AuthFailure(authHeader))
        => /\ pc = "done"
           /\ response.status = 401
           /\ calls = <<>>

C4_Witness ==
    /\ handler = "batch_netlify"
    /\ authHeader.scheme = "Bearer"
    /\ authHeader.payload = "garbage"
    /\ response.status = 401
    /\ calls = <<>>

\* ------------------------------------------------------------------ C5
\* C5: in every gateway entry point a backend call is issued only after a
\* principal has been extracted from the token and the configuration was found.
C5_CallOnlyAfterAuthAndConfig ==
    calls # <<>> => (authenticatedUserId \in Users /\ Configured(env))

\* ------------------------------------------------------------------ C6
\* C6: an authenticated request, whatever its body, that finds the base URL or
\* the credential missing is answered 502 server_configuration_missing, with
\* no backend call and none of the configuration values in the response.
C6_ConfigFailureIs502 ==
    (/\ pc = "done"
     /\ handler \in {"proxy_rewrite", "batch_netlify", "batch_cloudflare"}
     /\ authenticatedUserId \in Users
     /\ ~Configured(env))
        => /\ response.status = 502
           /\ response.error = "server_configuration_missing"
           /\ calls = <<>>
           /\ ConfigValues \cap ResponseTexts = {}

\* ------------------------------------------------------------------ C7
\* C7: the response to a single-call request whose backend call was answered
\* carries exactly the backend's status code and raw body.
C7_UpstreamPassthrough ==
    (/\ handler \in ProxyHandlers
     /\ Len(calls) = 1
     /\ calls[1].state = "replied")
        => /\ pc = "done"
           /\ response.status = calls[1].status
           /\ response.raw = calls[1].raw

\* an upstream failure with a body that is not JSON was relayed
C7_Witness ==
    /\ handler = "proxy_rewrite"
    /\ Len(calls) = 1
    /\ calls[1].state = "replied"
    /\ calls[1].status = 404
    /\ response.status = 404
    /\ response.raw = "Not Found"

\* ------------------------------------------------------------------ C8
\* C8: when the backend call of a single-call request fails at the network
\* level the response is 500 with a body that holds neither the exception's
\* text nor a configuration value.
C8_TransportFailureSanitized ==
    (/\ handler \in {"proxy_rewrite", "proxy_scoped"}
     /\ Len(calls) = 1
     /\ calls[1].state = "failed")
        => /\ response.status = 500
           /\ ResponseTexts \cap FetchErrors = {}
           /\ ResponseTexts \cap ConfigValues = {}

\* ------------------------------------------------------------------ C9
Succeeded(c) == c.state = "replied" /\ c.status = 200

\* the payload of a succeeded sub-request: its rows, and for the key business
\* the first row (none when there is no row)
Payload(c) ==
    IF c.key = "business"
    THEN [shape |-> "element", rows |-> SubSeq(c.rows, 1, 1)]
    ELSE [shape |-> "array", rows |-> c.rows]

HasPayload(c) == c.key # "business" \/ c.rows # <<>>

ResultKeys == {r.key : r \in response.result}

\* C9: a batch whose sub-requests were all issued and have settled is answered
\* 200; every succeeded key maps to its payload and to nothing else, every
\* failed key (network error, non-200 status) is absent.
C9_BatchPartialFailure ==
    (/\ handler \in BatchHandlers
     /\ calls # <<>>
     /\ AllSettled(calls))
        => /\ pc = "done"
           /\ response.status = 200
           /\ \A i \in 1..Len(calls) :
                 IF Succeeded(calls[i]) /\ HasPayload(calls[i])
                 THEN \A r \in response.result :
                          r.key = calls[i].key <=> r = [key |-> calls[i].key, value |-> Payload(calls[i])]
                 ELSE calls[i].key \notin ResultKeys
           /\ \A i \in 1..Len(calls) :
                 (Succeeded(calls[i]) /\ HasPayload(calls[i])) => calls[i].key \in ResultKeys

\* a two-key batch, one sub-request failed at the network, the other answered
C9_Witness ==
    /\ handler \in BatchHandlers
    /\ pc = "done"
    /\ Len(calls) = 2
    /\ calls[1].state = "failed"
    /\ Succeeded(calls[2])
    /\ calls[2].rows # <<>>
    /\ response.status = 200
    /\ ResultKeys = {calls[2].key}

\* ------------------------------------------------------------------ C10
\* C10: an authenticated, configured batch request whose body is a bare array
\* of { key, endpoint } or an object mapping key to endpoint is answered 200
\* with a result keyed by the request's keys.
C10_BothShapesAccepted ==
    (/\ handler \in BatchHandlers
     /\ pc = "done"
     /\ Configured(env)
     /\ eventBody.shape \in {"bareArray", "mapping"}
     /\ eventBody.requests # <<>>)
        => /\ response.status = 200
           /\ ResultKeys \subseteq {eventBody.requests[i].key : i \in 1..Len(eventBody.requests)}

\* ------------------------------------------------------------------ what the page sees of the cache
\* the entry under key K is present and younger than the TTL at instant c
Fresh(K, c) == K \in DOMAIN cache /\ Instants[c] - cache[K].timestamp < cacheTimeout

\* the key the call that just ended looked up
LastKey == cacheKey(variant, last.user, last.kind, last.table)

ReadReturned == last.kind \in ReadKinds /\ last.outcome = "returned"

\* the slots in which this step puts a new call of one of the kinds
Sent(kinds) == {i \in 1..MaxInFlight : ops[i].kind = "idle" /\ ops'[i].kind \in kinds}

\* ------------------------------------------------------------------ C11
\* C11: a lookup returns a payload only from an entry that is present under the
\* key and whose age (now minus its insertion timestamp) is strictly below the
\* TTL of 30000 ms, and what it returns is that entry's payload; and whenever
\* such an entry is present, the lookup returns it: a read goes to the gateway
\* only when its key has no entry or one of age >= TTL.
C11_HitIsFresh ==
    (ReadReturned /\ last.hit)
        => /\ Fresh(LastKey, clock)
           /\ last.value = cache[LastKey].data

C11_MissIsStale ==
    \A i \in Sent(ReadKinds) :
        Caches(variant)
            => ~Fresh(cacheKey(variant, ops'[i].user, ops'[i].kind, ops'[i].table), clock')

C11_CacheFreshness == [][C11_HitIsFresh' /\ C11_MissIsStale]_vars

\* a read was answered from an entry of age TTL - 1
C11_Witness ==
    /\ ReadReturned
    /\ last.hit
    /\ Instants[clock] - cache[LastKey].timestamp = cacheTimeout - 1

\* ------------------------------------------------------------------ C12
\* C12: in the snapshots with a cache, a getAll(T) that returns after a gateway
\* call leaves the payload it returns in the cache under its key, stamped with
\* the instant of its return; and while that entry is there (no clearCache or
\* setUser removed it) and younger than the TTL, a getAll(T) of the same user
\* sends no request, changes nothing in the cache and returns that payload.
C12_Populates ==
    (ReadReturned /\ last.kind = "getAll" /\ ~last.hit /\ Caches(variant))
        => /\ LastKey \in DOMAIN cache
           /\ cache[LastKey] = [data |-> last.value, timestamp |-> Instants[clock]]

\* this step is a call of getAll(T): answered from the cache or sent to the gateway
GetAllCalled(T) ==
    \/ last'.kind = "getAll" /\ last'.table = T /\ last'.hit
    \/ \E i \in Sent({"getAll"}) : ops'[i].table = T

C12_SecondIsHit ==
    \A T \in Tables :
        LET K == cacheKey(variant, userId, "getAll", T)
        IN  (Caches(variant) /\ GetAllCalled(T) /\ Fresh(K, clock'))
                => /\ Sent(ReadKinds) = {}
                   /\ started' = started
                   /\ cache' = cache
                   /\ last' = Outcome("getAll", T, userId, "returned", cache[K].data, TRUE)

C12_CacheHit == [][C12_Populates' /\ C12_SecondIsHit]_vars

\* the second getAll of a run, answered from the cache after the only gateway call
C12_Witness ==
    /\ last.kind = "getAll"
    /\ last.hit
    /\ started = 1
    /\ \A i \in 1..MaxInFlight : ops[i].kind = "idle"
    /\ Instants[clock] > cache[LastKey].timestamp
    /\ last.value = cache[LastKey].data

\* ------------------------------------------------------------------ C13
WriteReturned == last.kind \in WriteKinds /\ last.outcome = "returned"

\* C13: when create, update, softDelete, hardDelete or restore on table T
\* returns without throwing, the cache holds no key that contains T, whatever
\* it held before: the next lookup of any such key misses.
C13_InvalidationComplete ==
    (WriteReturned /\ Caches(variant))
        => \A K \in DOMAIN cache : ~Includes(K, last.table)

\* a write on T returned in the secure snapshot after getTrash had cached one
\* list per table and the merged trash: the list of T is gone, the others stay
C13_Witness ==
    /\ WriteReturned
    /\ variant = "secure"
    /\ getCacheKey(last.user, <<"trash">>) \in DOMAIN cache
    /\ InnerKey(last.user, "getTrash", last.table) \notin DOMAIN cache
    /\ \E T \in Tables \ {last.table} : InnerKey(last.user, "getTrash", T) \in DOMAIN cache

\* ------------------------------------------------------------------ C14
\* the aggregate a lookup at the current instant would be answered with
Served(K) == Fresh(K, clock) /\ TruthyData(cache[K].data)

\* what the claim says of the state in which a write of one of `kinds`
\* has returned without throwing
AggregatesInvalidatedAfter(kinds) ==
    (WriteReturned /\ last.kind \in kinds /\ Caches(variant))
        => /\ ~Served(getCacheKey(last.user, <<"dashboard">>))
           /\ ~Served(getCacheKey(last.user, <<"trash">>))

\* C14: when a write on a table returns without throwing, neither the
\* dashboard aggregate nor the trash aggregate of that user is served from the
\* cache by the next lookup; stated here for the writes the claim singles out,
\* softDelete and restore, after which getTrash must not return the aggregate
\* cached before the write.
C14_AggregatesInvalidated == AggregatesInvalidatedAfter({"softDelete", "restore"})

\* ------------------------------------------------------------------ C15
\* a write on table T of user u has taken effect in the store and has not yet
\* come back to the page
WriteUnderWay(u, T) ==
    \E i \in 1..MaxInFlight :
        /\ ops[i].kind \in WriteKinds
        /\ ops[i].user = u
        /\ ops[i].table = T
        /\ ops[i].parts[T].st = "served"

\* C15: whatever the interleaving of a getAll(T) in flight with a write on T,
\* once the write has completed, no lookup within the time to live is answered
\* with rows the backend produced before the write took effect: the entry a
\* lookup of getAll(T) would be answered with carries the table's current
\* revision.
C15_NoStaleReadAfterWrite ==
    \A T \in Tables :
        LET K == cacheKey(variant, userId, "getAll", T)
        IN  (/\ userId # Absent
             /\ Caches(variant)
             /\ Served(K)
             /\ ~WriteUnderWay(userId, T))
                => cache[K].data.parts[T].rev = store[userId][T].rev

\* ------------------------------------------------------------------ C16
\* the keys the methods look up
LookupKeys ==
    {cacheKey(variant, u, kind, T) : u \in Users, kind \in ReadKinds, T \in Tables}
        \cup {InnerKey(u, kind, T) : u \in Users, kind \in ReadKinds, T \in Tables}

\* C16: right after setUser(u), or clearCache() without a pattern, the cache
\* holds no entry and a lookup of any key, at any instant from now on, misses.
C16_InvalidateAll ==
    last.kind \in {"setUser", "clearCache"}
        => /\ DOMAIN cache = {}
           /\ \A K \in LookupKeys, c \in Ticks :
                 Reads(c) => getFromCache(cache, K, Instants[c]) = Null

\* the user is switched from alice to bob after alice's session has made its
\* call (a read that came back, when it was one that reached the gateway):
\* nothing is in flight, no write ran, and the cache is empty
C16_Witness ==
    /\ Caches(variant)
    /\ last.kind = "setUser"
    /\ last.user = "bob"
    /\ started = MaxOps
    /\ \A i \in 1..MaxInFlight : ops[i].kind = "idle"
    /\ \A u \in Users, T \in Tables : store[u][T].rev = 0
    /\ DOMAIN cache = {}

\* ------------------------------------------------------------------ C17
\* the softDelete calls whose PATCH reaches the store in this step
SoftDeleteApplied ==
    {i \in 1..MaxInFlight :
        /\ ops[i].kind = "softDelete"
        /\ ops[i].parts[ops[i].table].st = "sent"
        /\ ops'[i].kind = "softDelete"
        /\ ops'[i].parts[ops[i].table].st = "served"}

\* the softDelete calls whose response reaches the page in this step
SoftDeleteAnswered ==
    {i \in 1..MaxInFlight :
        /\ ops[i].kind = "softDelete"
        /\ ops[i].parts[ops[i].table].st = "served"
        /\ ops'[i].kind = "idle"
        /\ last'.outcome # "rejected"}

\* the record exists, whether in the trash or not: its deleted flag is true
\* once the PATCH of softDelete has been applied
C17_FlagStaysTrue ==
    \A i \in SoftDeleteApplied :
        store[ops[i].user][ops[i].table].row # "gone"
            => /\ store'[ops[i].user][ops[i].table].row = "trashed"
               /\ ops'[i].parts[ops[i].table].rows = <<Row(TRUE)>>

\* the call whose PATCH found the record returns, it does not throw
C17_NoError ==
    \A i \in SoftDeleteAnswered :
        ops[i].parts[ops[i].table].rows # <<>>
            => /\ last'.kind = "softDelete"
               /\ last'.outcome = "returned"

\* C17: softDelete(table, id) on an existing record of the caller, already
\* soft-deleted or not, sets the record's deleted flag to true in the store and
\* returns without an error whenever its request is answered; so the flag is
\* true after the first call and after the second.
C17_SoftDeleteIdempotent == [][C17_FlagStaysTrue /\ C17_NoError]_vars

\* the first softDelete of the record has returned, and the second one has
\* been applied to the record already in the trash
C17_Witness ==
    /\ last.kind = "softDelete"
    /\ last.outcome = "returned"
    /\ last.value.parts[last.table].rev = 1
    /\ \E i \in 1..MaxInFlight :
          /\ ops[i].kind = "softDelete"
          /\ ops[i].user = last.user
          /\ ops[i].table = last.table
          /\ ops[i].parts[last.table] =
                [st |-> "served", ok |-> TRUE, user_id |-> last.user, rev |-> 2,
                 rows |-> <<Row(TRUE)>>]
    /\ store[last.user][last.table] = [rev |-> 2, row |-> "trashed"]

\* ------------------------------------------------------------------ C18
\* the tenant-filter fragments of an endpoint: the positions of the query
\* pieces that start with user_id=
TenantPieces(e) == {k \in 1..Len(QueryPieces(e)) : StartsWith(QueryPieces(e)[k], "user_id=")}

\* what the claim says of the calls made for a raw endpoint with at least n
\* tenant filters user_id=eq.<V>
ExactlyOneTenantFragment(n) ==
    (/\ handler \in {"proxy_rewrite", "proxy_scoped"}
     /\ eventBody.hasEndpoint
     /\ PlainTenantFilters(eventBody.endpoint)
     /\ Cardinality(TenantPieces(eventBody.endpoint)) >= n)
        => \A c \in Issued :
              /\ Cardinality(TenantPieces(c.endpoint)) = 1
              /\ \A k \in TenantPieces(c.endpoint) :
                    QueryPieces(c.endpoint)[k] = TenantFilter(authenticatedUserId)

\* C18: however many tenant filters the raw endpoint holds, the endpoint the
\* db-proxy gateway (query-rewriting and .netlify snapshots) sends to the
\* backend holds exactly one tenant-filter fragment, user_id=eq.P for the
\* principal P; stated here for raw endpoints with several tenant filters, of
\* which all, not just the first, must be removed.
C18_ExactlyOneTenantFragment == ExactlyOneTenantFragment(2)

\* ------------------------------------------------------------------ C19
\* C19: every POST or PATCH request with an array body that the db-proxy
\* gateway (the snapshots that stamp the body) forwards for principal P
\* delivers an array of the same length whose every element has user_id = P.
C19_ArrayBodyStamped ==
    (/\ handler \in {"proxy_rewrite", "proxy_bodyonly"}
     /\ eventBody.method \in {"POST", "PATCH"}
     /\ eventBody.body.kind = "array")
        => \A c \in Issued :
              /\ c.body.kind = "array"
              /\ Len(c.body.elems) = Len(eventBody.body.elems)
              /\ \A k \in 1..Len(c.body.elems) : c.body.elems[k] = authenticatedUserId

\* ------------------------------------------------------------------ C20
\* the resource path of an endpoint: what precedes the first "?"
ResourcePath(e) == SubSeq(e, 1, IndexOf(e, "?", 1) - 1)

\* the query pieces of an endpoint that are not tenant filters, in their order
NonTenantPieces(e) ==
    SelectSeq(QueryPieces(e), LAMBDA piece : ~StartsWith(piece, "user_id="))

\* C20: the endpoint the db-proxy gateway (query-rewriting and .netlify
\* snapshots) sends has the resource path of the raw endpoint and its query
\* pieces other than tenant filters, unchanged and in the same order.
C20_RestPreserved ==
    (handler \in {"proxy_rewrite", "proxy_scoped"} /\ eventBody.hasEndpoint)
        => \A c \in Issued :
              /\ ResourcePath(c.endpoint) = ResourcePath(eventBody.endpoint)
              /\ NonTenantPieces(c.endpoint) = NonTenantPieces(eventBody.endpoint)

\* ------------------------------------------------------------------ C21
\* the backend call of sub-request i is made from sub-request i alone: its key,
\* its resource path, its query pieces other than tenant filters, and tenant
\* filters that name the principal
OwnEndpoint(i) ==
    LET raw == eventBody.requests[i].endpoint
        sent == calls[i].endpoint
    IN  /\ calls[i].item = i
        /\ calls[i].key = eventBody.requests[i].key
        /\ ResourcePath(sent) = ResourcePath(raw)
        /\ NonTenantPieces(sent) = NonTenantPieces(raw)
        /\ \A k \in TenantPieces(sent) : QueryPieces(sent)[k] = TenantFilter(authenticatedUserId)

\* the entry of the response under a key is made of the rows the backend
\* returned to the sub-request of that key
OwnResult(r) ==
    \E i \in 1..Len(calls) :
        /\ calls[i].key = r.key
        /\ calls[i].state = "replied"
        /\ r.value.rows = IF r.key = "business" THEN SubSeq(calls[i].rows, 1, 1) ELSE calls[i].rows

\* C21: in a batch with one sub-request per key, in whatever order the
\* sub-requests settle, the endpoint sent for sub-request i depends on its own
\* raw endpoint and the principal only (equal raw endpoints give equal sent
\* endpoints), and the payload under a key of the response is the answer to
\* that key's own backend call.
C21_SubRequestsIndependent ==
    (handler \in BatchHandlers /\ calls # <<>>)
        => /\ \A i \in 1..Len(calls) : calls[i].state # "rejected" => OwnEndpoint(i)
           /\ \A i, j \in 1..Len(calls) :
                 (/\ calls[i].state # "rejected"
                  /\ calls[j].state # "rejected"
                  /\ eventBody.requests[i].endpoint = eventBody.requests[j].endpoint)
                     => calls[i].endpoint = calls[j].endpoint
           /\ \A r \in response.result : OwnResult(r)

\* two sub-requests with different raw endpoints, one of them carrying another
\* user's filter, were answered with different rows and both are in the response
C21_Witness ==
    /\ handler \in BatchHandlers
    /\ pc = "done"
    /\ Len(calls) = 2
    /\ eventBody.requests[1].endpoint = <<"clients", "?">> \o TenantFilter("bob") \o <<"&", "select=*">>
    /\ eventBody.requests[2].endpoint = <<"clients">>
    /\ Succeeded(calls[1]) /\ calls[1].rows = <<>>
    /\ Succeeded(calls[2]) /\ calls[2].rows # <<>>
    /\ ResultKeys = {calls[1].key, calls[2].key}

\* ------------------------------------------------------------------ C22
\* C22: once a db-batch handler has produced its response, of any status, none
\* of the backend calls it started is still in flight.
C22_FanInBarrier ==
    (handler \in BatchHandlers /\ pc = "done")
        => \A i \in 1..Len(calls) : calls[i].state # "inflight"

\* ------------------------------------------------------------------ C23
\* the entries of the response under the key of sub-request i
EntriesOf(i) == {r \in response.result : r.key = calls[i].key}

\* C23: in the 200 response of a batch, a sub-request keyed business that was
\* answered 200 with the array A contributes the first element of A, not the
\* array (and nothing when A has no element), and every other sub-request
\* answered 200 contributes its array.
C23_BusinessIsFirstElement ==
    (handler \in BatchHandlers /\ pc = "done" /\ response.status = 200)
        => \A i \in 1..Len(calls) :
              Succeeded(calls[i]) =>
                  IF calls[i].key = "business"
                  THEN EntriesOf(i) =
                          IF calls[i].rows = <<>>
                          THEN {}
                          ELSE {[key |-> "business",
                                 value |-> [shape |-> "element", rows |-> <<calls[i].rows[1]>>]]}
                  ELSE EntriesOf(i) =
                          {[key |-> calls[i].key,
                            value |-> [shape |-> "array", rows |-> calls[i].rows]]}

\* a batch whose business sub-request and another one were both answered 200
\* with the same two rows
C23_Witness ==
    /\ handler \in BatchHandlers
    /\ pc = "done"
    /\ response.status = 200
    /\ Len(calls) = 2
    /\ calls[1].key = "business"
    /\ calls[2].key = "clients"
    /\ Succeeded(calls[1]) /\ calls[1].rows = <<"r1", "r2">>
    /\ Succeeded(calls[2]) /\ calls[2].rows = <<"r1", "r2">>
    /\ [key |-> "business", value |-> [shape |-> "element", rows |-> <<"r1">>]] \in response.result
    /\ [key |-> "clients", value |-> [shape |-> "array", rows |-> <<"r1", "r2">>]] \in response.result

\* ------------------------------------------------------------------ C24
\* a step in which a read method looks its key up and does nothing else to the
\* cache: it is answered from the cache, or it misses and sends its requests
LookupOnly == (last'.kind \in ReadKinds /\ last'.hit) \/ Sent(ReadKinds) # {}

\* entry K is removed by this step's invalidation: setUser, clearCache(), or a
\* write that returns and clears a pattern K includes
Invalidated(K) ==
    /\ K \notin DOMAIN cache'
    /\ \/ last'.kind \in {"setUser", "clearCache"}
       \/ /\ last'.kind \in WriteKinds
          /\ last'.outcome = "returned"
          /\ \E n \in 1..Len(Invalidates(variant, last'.kind, last'.table)) :
                Includes(K, Invalidates(variant, last'.kind, last'.table)[n])

\* entry K is overwritten by this step's populate, stamped with the instant of
\* the step
Overwritten(K) ==
    /\ K \in DOMAIN cache'
    /\ cache'[K].timestamp = Instants[clock']

C24_LookupChangesNothing == LookupOnly => cache' = cache

C24_ExpiredStays ==
    \A K \in DOMAIN cache :
        (~Fresh(K, clock') /\ (K \notin DOMAIN cache' \/ cache'[K] # cache[K]))
            => Invalidated(K) \/ Overwritten(K)

\* C24: a lookup adds, removes and changes no entry; an entry older than the
\* TTL is reported as a miss and stays in the map until a populate overwrites
\* it or an invalidation (a matching pattern, clearCache(), setUser) removes it.
C24_LookupHasNoEffect == [][C24_LookupChangesNothing /\ C24_ExpiredStays]_vars

\* a getAll found its entry older than the TTL and sent its request; the entry
\* is still in the map
C24_Witness ==
    /\ Caches(variant)
    /\ \E i \in 1..MaxInFlight :
          /\ ops[i].kind = "getAll"
          /\ ops[i].parts[ops[i].table].st = "sent"
          /\ cacheKey(variant, ops[i].user, "getAll", ops[i].table) \in DOMAIN cache
          /\ ~Fresh(cacheKey(variant, ops[i].user, "getAll", ops[i].table), clock)

\* ------------------------------------------------------------------ C25
\* the raw endpoint holds user_id= in a form other than a fragment
\* user_id=eq.<V>: another operator, an empty value, another column
Misspelled(e) == Includes(e, "user_id=") /\ ~PlainTenantFilters(e)

\* C25: a GET or DELETE request through the query-rewriting db-proxy snapshot
\* whose raw endpoint holds user_id= in a form other than user_id=eq.<V> still
\* goes to the backend with the predicate user_id=eq.P of the principal P.
C25_MisspelledFilterStillScoped ==
    (/\ handler = "proxy_rewrite"
     /\ eventBody.hasEndpoint
     /\ OrGet(eventBody.method) \in {"GET", "DELETE"}
     /\ Misspelled(eventBody.endpoint))
        => \A c \in Issued : HasTenantPredicate(c.endpoint, authenticatedUserId)

\* ------------------------------------------------------------------ C26
\* the methods under which the backend takes a body as the record to write
BodyWrites == {"POST", "PATCH", "PUT"}

\* C26: whatever method string the caller supplies, a request with an object
\* body that the db-proxy gateway (the snapshots that stamp the body) forwards
\* to the backend as a write reaches it with body user_id = P.
C26_StampedWhateverTheSpelling ==
    handler \in {"proxy_rewrite", "proxy_bodyonly"}
        => \A c \in Issued :
              (c.method \in BodyWrites /\ c.body.kind = "object")
                  => c.body.user_id = authenticatedUserId

\* ------------------------------------------------------------------ C27
\* a query piece with the value of a tenant filter user_id=eq.<V> blanked
Blanked(piece) ==
    IF Len(piece) = 3 /\ piece[1] = "user_id=" /\ piece[2] = "eq."
    THEN <<"user_id=", "eq.", "*">>
    ELSE piece

\* two raw endpoints that differ at most in the values of their tenant filters
SameButTenantValues(e1, e2) ==
    /\ ResourcePath(e1) = ResourcePath(e2)
    /\ Includes(e1, "?") = Includes(e2, "?")
    /\ Len(QueryPieces(e1)) = Len(QueryPieces(e2))
    /\ \A k \in 1..Len(QueryPieces(e1)) :
          Blanked(QueryPieces(e1)[k]) = Blanked(QueryPieces(e2)[k])

\* two bodies that differ at most in the user_id the client put in them
SameButUserId(b1, b2) ==
    /\ b1.kind = b2.kind
    /\ Len(b1.elems) = Len(b2.elems)

\* what the handler of this invocation sends for another request of the same
\* principal under the same configuration
Twin(e2, b2) ==
    ProxyOutcome(handler, Envelope(eventBody.method, TRUE, e2, b2), env, authenticatedUserId)

\* the twin request leads to the same backend call, or to none as this one
SameCall(o) ==
    IF calls = <<>>
    THEN o.kind # "call"
    ELSE /\ o.kind = "call"
         /\ o.method = calls[1].method
         /\ o.endpoint = calls[1].endpoint
         /\ o.body = calls[1].body

\* C27: two requests of the same principal to the db-proxy gateway
\* (query-rewriting and .netlify snapshots) that differ only in the values of
\* their user_id=eq.<V> fragments and in the body's user_id lead to the same
\* method, endpoint and body at the backend.
C27_RewriteNoninterference ==
    (/\ handler \in {"proxy_rewrite", "proxy_scoped"}
     /\ eventBody.shape = "envelope"
     /\ eventBody.hasEndpoint)
        => \A e2 \in RawEndpoints, b2 \in Bodies :
              (SameButTenantValues(eventBody.endpoint, e2) /\ SameButUserId(eventBody.body, b2))
                  => SameCall(Twin(e2, b2))

\* ------------------------------------------------------------------ C28
\* the elements of the batch that lack an endpoint
Malformed == {i \in 1..Len(eventBody.requests) : ~eventBody.requests[i].hasEndpoint}

\* C28: a batch in which one element lacks its endpoint and the others are
\* valid is answered 200; the response holds no entry under the malformed
\* element's key and the payload of every valid sub-request answered 200.
C28_MalformedEntryContained ==
    (/\ handler \in BatchHandlers
     /\ pc = "done"
     /\ eventBody.shape = "wrapped"
     /\ Cardinality(Malformed) = 1
     /\ Len(eventBody.requests) > 1)
        => /\ response.status = 200
           /\ \A i \in Malformed : eventBody.requests[i].key \notin ResultKeys
           /\ \A i \in 1..Len(calls) :
                 (Succeeded(calls[i]) /\ HasPayload(calls[i])) => calls[i].key \in ResultKeys

\* ------------------------------------------------------------------ C29
\* C29: whatever the interleaving of setUser with reads in flight, an entry
\* that a lookup of the current user would be answered with holds only rows
\* fetched for that user.
C29_NoPayloadOfAnotherUser ==
    \A K \in DOMAIN cache :
        (K[1] = userId /\ Served(K))
            => \A t \in DOMAIN cache[K].data.parts : cache[K].data.parts[t].user_id = userId

\* ------------------------------------------------------------------ C30
\* the create and update calls of the cited snapshots whose control returns to
\* the caller in this step
WriteComesBack ==
    {i \in 1..MaxInFlight :
        /\ variant \in {"fixed", "optimized"}
        /\ ops[i].kind \in {"create", "update"}
        /\ ops'[i].kind = "idle"}

\* the request of call i changed the backing store: the store applied it, and
\* it inserted a row or found the row it patches
ChangedStore(i) ==
    /\ ops[i].parts[ops[i].table].st = "served"
    /\ ops[i].kind = "create" \/ ops[i].parts[ops[i].table].rows # <<>>

\* a write on T that changed the store leaves no entry whose key contains T,
\* whether it returns or throws
C30_InvalidatedOnEveryExit ==
    \A i \in WriteComesBack :
        ChangedStore(i) => \A K \in DOMAIN cache' : ~Includes(K, ops[i].table)

\* a write that fails without having changed the store leaves the cache as it
\* was
C30_FailureKeepsCache ==
    \A i \in WriteComesBack :
        (~ChangedStore(i) /\ last'.outcome \in Raised) => cache' = cache

\* C30: a create or update on table T whose request changed the backing store
\* leaves no cache entry whose key contains T when control returns to the
\* caller, whether it returns or throws; a create or update that fails before
\* changing the store leaves the cache unchanged.
C30_NoWriteEscapesInvalidation ==
    [][C30_InvalidatedOnEveryExit /\ C30_FailureKeepsCache]_vars

====
